---- MODULE Spec2Model ----
(***************************************************************************)
(* Coordinator topologies of fedlab_core/server/topology.py:               *)
(* ServerSyncTop (round based) and ServerAsyncTop (epoch based), each      *)
(* running an activation thread and a listening thread, together with the  *)
(* workers they talk to over FIFO point-to-point channels.                 *)
(***************************************************************************)
EXTENDS Naturals, Integers, Sequences, FiniteSets, TLC

\* ------------------------------------------------------------------ bounds
MaxClients == 2
MaxRound == 2

\* ServerAsyncTop.__init__: self.global_activate_epoch = 3
global_activate_epoch == 3

VARIABLES
    mode,                 \* "sync": ServerSyncTop, "async": ServerAsyncTop
    client_num_in_total,  \* handler.client_num_in_total
    client_num_per_round, \* handler.client_num_per_round
    global_round,         \* ServerSyncTop.global_round
    silent,               \* workers that never send an update back
    main_pc,              \* position of run()
    round_idx,            \* run(): for round_idx in range(global_round)
    client_idx,           \* shutdown_clients(): for client_idx in range(N)
    act_pc,               \* position of the activate_clients thread
    act_round,            \* round (sync) or epoch (async) the activation thread is in
    clients_this_round,   \* activate_clients: the selection of this round/epoch
    act_todo,             \* selected clients the send loop has not reached yet
    lis_pc,               \* position of the listen_clients thread ("applying": in on_receive)
    lis_sender,           \* sender of the package recv returned, 0 once it is handled
    lis_tag,              \* round/epoch of the package that update answers, 0 once handled
    train_flag,           \* handler.train_flag
    cache_cnt,            \* handler: updates folded since the last aggregation
    model,                \* handler.model (GlobalModel): its version, the aggregations done
    model_update_time,    \* handler.model_update_time
    has_new_update,       \* ServerAsyncTop.has_new_update
    current_update_time,  \* listen_clients (async): the loop index
    inbox,                \* channel coordinator -> worker w, FIFO
    upd,                  \* channel worker w -> coordinator, FIFO
    wpc,                  \* position of worker w
    wcur,                 \* round/epoch of the package worker w is training on, 0 when idle
    \* history variables
    n_act_done,           \* activation threads that have returned
    n_lis_done,           \* listening threads that have returned
    exit_sent,            \* rank -> Exit packages sent to it
    pu_sent,              \* ParameterUpdate packages sent by the coordinator
    sent_round,           \* w -> ParameterUpdate sent to w in the current round
    recv_round,           \* w -> updates of w handed to on_receive in the current round
    selected_in,          \* w -> rounds/epochs in which w was selected
    observed,             \* w -> packages w has taken off its channel, in order
    recv_tags             \* round/epoch -> updates received that answer a package of it

vars == << mode, client_num_in_total, client_num_per_round, global_round, silent,
           main_pc, round_idx, client_idx, act_pc, act_round, clients_this_round,
           act_todo, lis_pc, lis_sender, lis_tag, train_flag, cache_cnt, model,
           model_update_time, has_new_update,
           current_update_time, inbox, upd, wpc, wcur, n_act_done, n_lis_done,
           exit_sent, pu_sent, sent_round, recv_round, selected_in, observed,
           recv_tags >>

cfgVars == << mode, client_num_in_total, client_num_per_round, global_round, silent >>
mainVars == << main_pc, round_idx, client_idx >>
actVars == << act_pc, act_round, clients_this_round, act_todo >>
lisVars == << lis_pc, lis_sender, lis_tag, current_update_time >>
handlerVars == << train_flag, cache_cnt, model, model_update_time >>
workerVars == << wpc, wcur, observed >>
roundHist == << sent_round, recv_round >>

\* ------------------------------------------------------------------ helpers
\* the rounds of ServerSyncTop, the epochs of ServerAsyncTop
Tags == 0 .. ((IF mode = "sync" THEN global_round ELSE global_activate_epoch) - 1)

Workers == 1 .. client_num_in_total
Ranks == 0 .. client_num_in_total

\* faulty variant: the bound forgets the factor client_num_per_round
UpdateTimeEpochsOnly == global_activate_epoch

\* ServerAsyncTop.__init__: total_update_time = global_activate_epoch * client_num_per_round
total_update_time == global_activate_epoch * client_num_per_round

\* the two message codes the topologies use
ParameterUpdate == "ParameterUpdate"
Exit == "Exit"

\* a package: its message code, its tensors in order, and the round (sync) or
\* epoch (async) it was sent in
Package(code, content, tag) == [code |-> code, tensors |-> content, tag |-> tag]

\* a serialized model: whether it is the model after a whole number of applied
\* updates, and if so how many; whole = FALSE stands for every value a read that
\* races with a write can return (the model before the write, the model after
\* it, or any mix of the two), none of which can be told to be a whole model
ModelTensor(n, whole) ==
    [kind |-> "model", applied |-> IF whole THEN n ELSE 0, whole |-> whole]

\* torch.zeros(1) holding current_model_epoch
EpochTensor(e) == [kind |-> "epoch", value |-> e]

\* SerializationTool.serialize_model(self._handler.model): a read of the model,
\* which races with the handler's write while on_receive is applying an update
SerializeModel == ModelTensor(model, lis_pc # "applying")

\* what the history keeps of a package a worker has taken off its channel
Observation(pkg) == [code |-> pkg.code, tag |-> pkg.tag]

\* handler.select_clients(): client_num_per_round distinct worker ranks
SelectClients == { S \in SUBSET Workers : Cardinality(S) = client_num_per_round }

\* PackageProcessor.send_*: a blocking send puts the package at the tail of dst's channel
Send(ch, dst, pkg) == [ch EXCEPT ![dst] = Append(@, pkg)]

RECURSIVE SumOver(_, _)
SumOver(f, S) == IF S = {} THEN 0
                 ELSE LET x == CHOOSE y \in S : TRUE
                      IN f[x] + SumOver(f, S \ {x})

\* ------------------------------------------------------------------ initial states
InitCommon ==
    /\ client_num_in_total \in 1 .. MaxClients
    /\ client_num_per_round \in 1 .. client_num_in_total
    /\ silent \in {{}, {1}}
    /\ round_idx = 0
    /\ client_idx = 0
    /\ act_pc = "idle"
    /\ act_round = 0
    /\ clients_this_round = {}
    /\ act_todo = {}
    /\ lis_pc = "idle"
    /\ lis_sender = 0
    /\ lis_tag = 0
    /\ train_flag = FALSE
    /\ cache_cnt = 0
    /\ model = 0
    /\ model_update_time = 0
    /\ has_new_update = FALSE
    /\ current_update_time = 0
    /\ inbox = [w \in 1 .. client_num_in_total |-> << >>]
    /\ upd = [w \in 1 .. client_num_in_total |-> << >>]
    /\ wpc = [w \in 1 .. client_num_in_total |-> "recv"]
    /\ wcur = [w \in 1 .. client_num_in_total |-> 0]
    /\ n_act_done = 0
    /\ n_lis_done = 0
    /\ exit_sent = [r \in 0 .. client_num_in_total |-> 0]
    /\ pu_sent = 0
    /\ sent_round = [w \in 1 .. client_num_in_total |-> 0]
    /\ recv_round = [w \in 1 .. client_num_in_total |-> 0]
    /\ selected_in = [w \in 1 .. client_num_in_total |-> {}]
    /\ observed = [w \in 1 .. client_num_in_total |-> << >>]
    /\ recv_tags = [e \in Tags |-> 0]

SyncInit ==
    /\ mode = "sync"
    /\ global_round \in 1 .. MaxRound
    /\ main_pc = "for"
    /\ InitCommon

\* ------------------------------------------------------------------ workers
\* Worker loop: block on receive; ParameterUpdate -> train and reply, Exit -> stop.
\* Training touches nothing the coordinator can see, so a worker that replies
\* takes its package, trains and sends its update in one step; a silent worker
\* takes its package and stays in training.
WorkerRecv(w) ==
    /\ wpc[w] = "recv"
    /\ inbox[w] # << >>
    /\ LET pkg == Head(inbox[w])
       IN /\ inbox' = [inbox EXCEPT ![w] = Tail(@)]
          /\ observed' = [observed EXCEPT ![w] = Append(@, Observation(pkg))]
          /\ IF pkg.code = Exit
             THEN /\ wpc' = [wpc EXCEPT ![w] = "exited"]
                  /\ UNCHANGED << wcur, upd >>
             ELSE IF w \in silent
                  THEN /\ wpc' = [wpc EXCEPT ![w] = "train"]
                       /\ wcur' = [wcur EXCEPT ![w] = pkg.tag]
                       /\ upd' = upd
                  ELSE /\ upd' = [upd EXCEPT ![w] = Append(@, pkg.tag)]
                       /\ UNCHANGED << wpc, wcur >>
    /\ UNCHANGED << cfgVars, mainVars, actVars, lisVars, handlerVars, has_new_update,
                    n_act_done, n_lis_done, exit_sent, pu_sent, roundHist,
                    selected_in, recv_tags >>

WorkerNext == \E w \in Workers : WorkerRecv(w)

\* ------------------------------------------------------------------ ServerSyncTop
\* run(): loop head; activate.start()
SyncRunFor ==
    /\ main_pc = "for"
    /\ IF round_idx < global_round
       THEN /\ main_pc' = "start_listen"
            /\ act_pc' = "select"
            /\ act_round' = round_idx
            /\ sent_round' = [w \in Workers |-> 0]
            /\ recv_round' = [w \in Workers |-> 0]
       ELSE /\ main_pc' = "shutdown"
            /\ UNCHANGED << act_pc, act_round, sent_round, recv_round >>
    /\ UNCHANGED << cfgVars, round_idx, client_idx, clients_this_round, act_todo,
                    lisVars, handlerVars, has_new_update, inbox, upd, workerVars,
                    n_act_done, n_lis_done, exit_sent, pu_sent, selected_in, recv_tags >>

\* run(): listen.start()
SyncRunStartListen ==
    /\ main_pc = "start_listen"
    /\ main_pc' = "join"
    /\ lis_pc' = "train"
    /\ UNCHANGED << cfgVars, round_idx, client_idx, actVars, lis_sender, lis_tag,
                    current_update_time, handlerVars, has_new_update, inbox, upd,
                    workerVars, n_act_done, n_lis_done, exit_sent, pu_sent, roundHist,
                    selected_in, recv_tags >>

\* faulty variant: run() joins neither thread
JoinedNone == TRUE

\* faulty variant: run() joins the activation thread only
JoinedActivateOnly == act_pc = "done"

\* run(): activate.join(); listen.join() return once both threads have returned
SyncJoined == act_pc = "done" /\ lis_pc = "done"

\* run(): both joins, then the next iteration of the for loop
SyncRunJoin ==
    /\ main_pc = "join"
    /\ SyncJoined
    /\ round_idx' = round_idx + 1
    /\ main_pc' = "for"
    /\ UNCHANGED << cfgVars, client_idx, actVars, lisVars, handlerVars, has_new_update,
                    inbox, upd, workerVars, n_act_done, n_lis_done, exit_sent, pu_sent,
                    roundHist, selected_in, recv_tags >>

\* faulty variant: dst=client_idx
ShutdownDstSame(i) == i

\* shutdown_clients(): dst=client_idx+1
ShutdownDst(i) == i + 1

\* shutdown_clients(): one iteration, Exit to rank client_idx + 1
SyncShutdownSend ==
    /\ main_pc = "shutdown"
    /\ IF client_idx < client_num_in_total
       THEN /\ inbox' = Send(inbox, ShutdownDst(client_idx),
                             Package(Exit, << SerializeModel >>, global_round))
            /\ exit_sent' = [exit_sent EXCEPT ![ShutdownDst(client_idx)] = @ + 1]
            /\ client_idx' = client_idx + 1
            /\ main_pc' = main_pc
       ELSE /\ main_pc' = "done"
            /\ UNCHANGED << inbox, exit_sent, client_idx >>
    /\ UNCHANGED << cfgVars, round_idx, actVars, lisVars, handlerVars, has_new_update,
                    upd, workerVars, n_act_done, n_lis_done, pu_sent, roundHist,
                    selected_in, recv_tags >>

\* activate_clients(): clients_this_round = self._handler.select_clients()
SyncActivateSelect ==
    /\ act_pc = "select"
    /\ \E S \in SelectClients :
          /\ clients_this_round' = S
          /\ act_todo' = S
          /\ selected_in' = [w \in Workers |->
                               IF w \in S THEN selected_in[w] \cup {act_round}
                               ELSE selected_in[w]]
    /\ act_pc' = "send"
    /\ UNCHANGED << cfgVars, mainVars, act_round, lisVars, handlerVars, has_new_update,
                    inbox, upd, workerVars, n_act_done, n_lis_done, exit_sent, pu_sent,
                    roundHist, recv_tags >>

\* activate_clients(): one iteration of the send loop, or its end
SyncActivateSend ==
    /\ act_pc = "send"
    /\ IF act_todo # {}
       THEN \E c \in act_todo :
               /\ inbox' = Send(inbox, c,
                               Package(ParameterUpdate, << SerializeModel >>, act_round))
               /\ act_todo' = act_todo \ {c}
               /\ sent_round' = [sent_round EXCEPT ![c] = @ + 1]
               /\ pu_sent' = pu_sent + 1
               /\ UNCHANGED << act_pc, n_act_done >>
       ELSE /\ act_pc' = "done"
            /\ n_act_done' = n_act_done + 1
            /\ UNCHANGED << inbox, act_todo, sent_round, pu_sent >>
    /\ UNCHANGED << cfgVars, mainVars, act_round, clients_this_round, lisVars,
                    handlerVars, has_new_update, upd, workerVars, n_lis_done, exit_sent,
                    recv_round, selected_in, recv_tags >>

\* listen_clients(): self._handler.train()
SyncListenTrain ==
    /\ lis_pc = "train"
    /\ train_flag' = TRUE
    /\ lis_pc' = "while"
    /\ UNCHANGED << cfgVars, mainVars, actVars, lis_sender, lis_tag, current_update_time,
                    cache_cnt, model, model_update_time, has_new_update, inbox, upd, workerVars, n_act_done,
                    n_lis_done, exit_sent, pu_sent, roundHist, selected_in, recv_tags >>

\* faulty variant: an if in place of the while, one receive at most
ListenOnce == train_flag /\ SumOver(recv_round, Workers) = 0

\* faulty variant: the loop is never entered
ListenNever == FALSE

\* faulty variant: the loop ignores train_flag
ListenForever == TRUE

\* listen_clients(): while self._handler.train_flag
SyncListenContinue == train_flag

SyncListenWhile ==
    /\ lis_pc = "while"
    /\ IF SyncListenContinue
       THEN /\ lis_pc' = "recv"
            /\ n_lis_done' = n_lis_done
       ELSE /\ lis_pc' = "done"
            /\ n_lis_done' = n_lis_done + 1
    /\ UNCHANGED << cfgVars, mainVars, actVars, lis_sender, lis_tag, current_update_time,
                    handlerVars, has_new_update, inbox, upd, workerVars, n_act_done,
                    exit_sent, pu_sent, roundHist, selected_in, recv_tags >>

\* listen_clients(): PackageProcessor.recv_model, a blocking receive from any rank
SyncListenRecv ==
    /\ lis_pc = "recv"
    /\ \E w \in Workers :
          /\ upd[w] # << >>
          /\ lis_sender' = w
          /\ lis_tag' = Head(upd[w])
          /\ upd' = [upd EXCEPT ![w] = Tail(@)]
    /\ lis_pc' = "on_receive"
    /\ UNCHANGED << cfgVars, mainVars, actVars, current_update_time, handlerVars,
                    has_new_update, inbox, workerVars, n_act_done, n_lis_done, exit_sent,
                    pu_sent, roundHist, selected_in, recv_tags >>

\* handler.on_receive (synchronous handler): fold the update; once
\* client_num_per_round updates are folded, aggregate and clear train_flag
SyncOnReceive ==
    /\ IF cache_cnt + 1 = client_num_per_round
       THEN /\ cache_cnt' = 0
            /\ model' = model + 1
            /\ train_flag' = FALSE
       ELSE /\ cache_cnt' = cache_cnt + 1
            /\ UNCHANGED << model, train_flag >>
    /\ UNCHANGED model_update_time

\* listen_clients(): self._handler.on_receive(sender, message_code, s_parameters)
SyncListenOnReceive ==
    /\ lis_pc = "on_receive"
    /\ SyncOnReceive
    /\ recv_round' = [recv_round EXCEPT ![lis_sender] = @ + 1]
    /\ recv_tags' = [recv_tags EXCEPT ![lis_tag] = @ + 1]
    /\ lis_pc' = "while"
    /\ lis_sender' = 0
    /\ lis_tag' = 0
    /\ UNCHANGED << cfgVars, mainVars, actVars, current_update_time,
                    has_new_update, inbox, upd, workerVars, n_act_done, n_lis_done,
                    exit_sent, pu_sent, sent_round, selected_in >>

SyncNext ==
    \/ SyncRunFor
    \/ SyncRunStartListen
    \/ SyncRunJoin
    \/ SyncShutdownSend
    \/ SyncActivateSelect
    \/ SyncActivateSend
    \/ SyncListenTrain
    \/ SyncListenWhile
    \/ SyncListenRecv
    \/ SyncListenOnReceive
    \/ WorkerNext

SyncSpec == SyncInit /\ [][SyncNext]_vars

SyncFairSpec == SyncSpec /\ WF_vars(SyncNext)

\* ------------------------------------------------------------------ ServerAsyncTop
AsyncInit ==
    /\ mode = "async"
    /\ global_round = 0
    /\ main_pc = "start_activate"
    /\ InitCommon

\* run(): activate.start()
AsyncRunStartActivate ==
    /\ main_pc = "start_activate"
    /\ main_pc' = "start_listen"
    /\ act_pc' = "for"
    /\ UNCHANGED << cfgVars, round_idx, client_idx, act_round, clients_this_round,
                    act_todo, lisVars, handlerVars, has_new_update, inbox, upd,
                    workerVars, n_act_done, n_lis_done, exit_sent, pu_sent, roundHist,
                    selected_in, recv_tags >>

\* run(): listen.start()
AsyncRunStartListen ==
    /\ main_pc = "start_listen"
    /\ main_pc' = "join"
    /\ lis_pc' = "for"
    /\ UNCHANGED << cfgVars, round_idx, client_idx, actVars, lis_sender, lis_tag,
                    current_update_time, handlerVars, has_new_update, inbox, upd,
                    workerVars, n_act_done, n_lis_done, exit_sent, pu_sent, roundHist,
                    selected_in, recv_tags >>

\* run(): listen.join() returns once the listening thread has returned
AsyncJoined == lis_pc = "done"

\* run(): listen.join(), then shutdown_clients()
AsyncRunJoin ==
    /\ main_pc = "join"
    /\ AsyncJoined
    /\ main_pc' = "shutdown"
    /\ UNCHANGED << cfgVars, round_idx, client_idx, actVars, lisVars, handlerVars,
                    has_new_update, inbox, upd, workerVars, n_act_done, n_lis_done,
                    exit_sent, pu_sent, roundHist, selected_in, recv_tags >>

\* shutdown_clients(): one iteration, the serialized model tagged Exit to rank client_idx + 1
AsyncShutdownSend ==
    /\ main_pc = "shutdown"
    /\ IF client_idx < client_num_in_total
       THEN /\ inbox' = Send(inbox, ShutdownDst(client_idx),
                             Package(Exit, << SerializeModel >>, global_activate_epoch))
            /\ exit_sent' = [exit_sent EXCEPT ![ShutdownDst(client_idx)] = @ + 1]
            /\ client_idx' = client_idx + 1
            /\ main_pc' = main_pc
       ELSE /\ main_pc' = "done"
            /\ UNCHANGED << inbox, exit_sent, client_idx >>
    /\ UNCHANGED << cfgVars, round_idx, actVars, lisVars, handlerVars, has_new_update,
                    upd, workerVars, n_act_done, n_lis_done, pu_sent, roundHist,
                    selected_in, recv_tags >>

\* activate_clients(): for current_model_epoch in range(global_activate_epoch);
\* clients_this_epoch = self._handler.select_clients()
AsyncActivateFor ==
    /\ act_pc = "for"
    /\ IF act_round < global_activate_epoch
       THEN /\ \E S \in SelectClients :
                 /\ clients_this_round' = S
                 /\ act_todo' = S
                 /\ selected_in' = [w \in Workers |->
                                      IF w \in S THEN selected_in[w] \cup {act_round}
                                      ELSE selected_in[w]]
            /\ act_pc' = "send"
            /\ n_act_done' = n_act_done
       ELSE /\ act_pc' = "done"
            /\ n_act_done' = n_act_done + 1
            /\ UNCHANGED << clients_this_round, act_todo, selected_in >>
    /\ UNCHANGED << cfgVars, mainVars, act_round, lisVars, handlerVars, has_new_update,
                    inbox, upd, workerVars, n_lis_done, exit_sent, pu_sent, roundHist,
                    recv_tags >>

\* faulty variant: the two tensors in the wrong order
TensorListSwapped(model_params, epoch) == << EpochTensor(epoch), model_params >>

\* activate_clients(): pack.append_tensor_list([model_params, current_model_epoch_torch])
TensorList(model_params, epoch) == << model_params, EpochTensor(epoch) >>

\* activate_clients(): one iteration of the send loop: the package holds the
\* serialized model and the epoch index
AsyncActivateSend ==
    /\ act_pc = "send"
    /\ act_todo # {}
    /\ \E c \in act_todo :
          /\ inbox' = Send(inbox, c, Package(ParameterUpdate,
                                             TensorList(SerializeModel, act_round),
                                             act_round))
          /\ act_todo' = act_todo \ {c}
    /\ pu_sent' = pu_sent + 1
    /\ UNCHANGED << cfgVars, mainVars, act_pc, act_round, clients_this_round, lisVars,
                    handlerVars, has_new_update, upd, workerVars, n_act_done,
                    n_lis_done, exit_sent, roundHist, selected_in, recv_tags >>

\* faulty variant: the flag is left as it is
FlagKept == has_new_update

\* activate_clients(): the value given to self.has_new_update after the send loop
FlagCleared == FALSE

\* activate_clients(): self.has_new_update = False, after the send loop
AsyncActivateClear ==
    /\ act_pc = "send"
    /\ act_todo = {}
    /\ has_new_update' = FlagCleared
    /\ act_pc' = "wait"
    /\ UNCHANGED << cfgVars, mainVars, act_round, clients_this_round, act_todo, lisVars,
                    handlerVars, inbox, upd, workerVars, n_act_done, n_lis_done,
                    exit_sent, pu_sent, roundHist, selected_in, recv_tags >>

\* faulty variant: the activation thread does not wait
GateAlwaysOpen == TRUE

\* activate_clients(): while not self.has_new_update: pass
AsyncGateOpen == has_new_update

\* activate_clients(): the busy-wait ends, the for loop takes its next epoch
AsyncActivateWait ==
    /\ act_pc = "wait"
    /\ AsyncGateOpen
    /\ act_round' = act_round + 1
    /\ act_pc' = "for"
    /\ UNCHANGED << cfgVars, mainVars, clients_this_round, act_todo, lisVars,
                    handlerVars, has_new_update, inbox, upd, workerVars, n_act_done,
                    n_lis_done, exit_sent, pu_sent, roundHist, selected_in, recv_tags >>

\* listen_clients(): for current_update_time in range(self.total_update_time)
AsyncListenFor ==
    /\ lis_pc = "for"
    /\ IF current_update_time < total_update_time
       THEN /\ lis_pc' = "recv"
            /\ n_lis_done' = n_lis_done
       ELSE /\ lis_pc' = "done"
            /\ n_lis_done' = n_lis_done + 1
    /\ UNCHANGED << cfgVars, mainVars, actVars, lis_sender, lis_tag, current_update_time,
                    handlerVars, has_new_update, inbox, upd, workerVars, n_act_done,
                    exit_sent, pu_sent, roundHist, selected_in, recv_tags >>

\* listen_clients(): PackageProcessor.recv_package(), a blocking receive from any rank
AsyncListenRecv ==
    /\ lis_pc = "recv"
    /\ \E w \in Workers :
          /\ upd[w] # << >>
          /\ lis_sender' = w
          /\ lis_tag' = Head(upd[w])
          /\ recv_tags' = [recv_tags EXCEPT ![Head(upd[w])] = @ + 1]
          /\ upd' = [upd EXCEPT ![w] = Tail(@)]
    /\ lis_pc' = "on_receive"
    /\ UNCHANGED << cfgVars, mainVars, actVars, current_update_time, handlerVars,
                    has_new_update, inbox, workerVars, n_act_done, n_lis_done, exit_sent,
                    pu_sent, roundHist, selected_in >>

\* handler.on_receive (asynchronous handler): every update is aggregated into the model
AsyncOnReceive ==
    /\ model' = model + 1
    /\ UNCHANGED << train_flag, cache_cnt >>

\* faulty variant: the stamp is one ahead
StampNext == current_update_time + 1

\* listen_clients(): self._handler.model_update_time = current_update_time
AsyncStamp == current_update_time

\* listen_clients(): self._handler.model_update_time = current_update_time;
\* self._handler.on_receive(sender, message_code, content) is called and starts
\* to write the model
AsyncListenOnReceive ==
    /\ lis_pc = "on_receive"
    /\ model_update_time' = AsyncStamp
    /\ lis_pc' = "applying"
    /\ lis_sender' = 0
    /\ lis_tag' = 0
    /\ UNCHANGED << cfgVars, mainVars, actVars, current_update_time,
                    train_flag, cache_cnt, model, has_new_update, inbox, upd, workerVars,
                    n_act_done, n_lis_done, exit_sent, pu_sent, roundHist, selected_in,
                    recv_tags >>

\* faulty variant: the call returns without the handler having folded the update
OnReceiveSkipped ==
    /\ lis_pc = "applying"
    /\ lis_pc' = "set"
    /\ UNCHANGED << cfgVars, mainVars, actVars, lis_sender, lis_tag, current_update_time,
                    handlerVars, has_new_update, inbox, upd, workerVars,
                    n_act_done, n_lis_done, exit_sent, pu_sent, roundHist, selected_in,
                    recv_tags >>

\* listen_clients(): on_receive has written the model and returns
AsyncListenOnReceiveReturn ==
    /\ lis_pc = "applying"
    /\ AsyncOnReceive
    /\ lis_pc' = "set"
    /\ UNCHANGED << cfgVars, mainVars, actVars, lis_sender, lis_tag, current_update_time,
                    model_update_time, has_new_update, inbox, upd, workerVars,
                    n_act_done, n_lis_done, exit_sent, pu_sent, roundHist, selected_in,
                    recv_tags >>

\* listen_clients(): self.has_new_update = True, the end of one iteration
AsyncListenSet ==
    /\ lis_pc = "set"
    /\ has_new_update' = TRUE
    /\ current_update_time' = current_update_time + 1
    /\ lis_pc' = "for"
    /\ UNCHANGED << cfgVars, mainVars, actVars, lis_sender, lis_tag, handlerVars, inbox,
                    upd, workerVars, n_act_done, n_lis_done, exit_sent, pu_sent,
                    roundHist, selected_in, recv_tags >>

AsyncNext ==
    \/ AsyncRunStartActivate
    \/ AsyncRunStartListen
    \/ AsyncRunJoin
    \/ AsyncShutdownSend
    \/ AsyncActivateFor
    \/ AsyncActivateSend
    \/ AsyncActivateClear
    \/ AsyncActivateWait
    \/ AsyncListenFor
    \/ AsyncListenRecv
    \/ AsyncListenOnReceive
    \/ AsyncListenOnReceiveReturn
    \/ AsyncListenSet
    \/ WorkerNext

AsyncSpec == AsyncInit /\ [][AsyncNext]_vars

AsyncFairSpec == AsyncSpec /\ WF_vars(AsyncNext)

\* ------------------------------------------------------------------ both variants
\* a coordinator of either class, as chosen at construction
Init == SyncInit \/ AsyncInit

Next ==
    \/ mode = "sync" /\ SyncNext
    \/ mode = "async" /\ AsyncNext

Spec == Init /\ [][Next]_vars

\* ------------------------------------------------------------------ properties
IsSync == mode = "sync"

ExitSentToSome == \E r \in Ranks : exit_sent[r] > 0

UpdatesReceived == SumOver(recv_tags, Tags)

\* C1: the synchronous coordinator sends no Exit to rank 0, at most one Exit to
\* each worker rank and exactly one to each once run() has returned, and no Exit
\* before exactly global_round activation and listening threads have returned.
C1_SyncExitOncePerWorker ==
    IsSync =>
       /\ exit_sent[0] = 0
       /\ \A w \in Workers : exit_sent[w] <= 1
       /\ \A w \in Workers : exit_sent[w] = (IF w <= client_idx THEN 1 ELSE 0)
       /\ ExitSentToSome =>
             /\ round_idx = global_round
             /\ n_act_done = global_round
             /\ n_lis_done = global_round
       /\ main_pc = "done" => \A w \in Workers : exit_sent[w] = 1

C1_Witness ==
    /\ IsSync
    /\ main_pc = "done"
    /\ global_round = 2
    /\ client_num_in_total = 2
    /\ \A w \in Workers : exit_sent[w] = 1

\* C5: in synchronous mode a thread of round N+1 is started, and a
\* ParameterUpdate of round N+1 is sent, only after the activation thread and the
\* listening thread of every round up to N have returned, the listening loop
\* having ended with train_flag cleared.
C5_SyncNoOverlapAcrossRounds ==
    [][ IsSync =>
          /\ (pu_sent' # pu_sent) =>
                 /\ act_round = round_idx
                 /\ n_act_done = act_round
                 /\ n_lis_done >= act_round
                 /\ n_lis_done = act_round \/ ~train_flag
          /\ (main_pc = "for" /\ main_pc' = "start_listen") =>
                 /\ n_act_done = round_idx
                 /\ n_lis_done = round_idx
                 /\ ~train_flag
                 /\ round_idx > 0 => (act_pc = "done" /\ lis_pc = "done")
          /\ (main_pc = "start_listen" /\ main_pc' = "join") =>
                 n_lis_done = round_idx
      ]_vars

C5_Witness ==
    /\ IsSync
    /\ act_round = 1
    /\ \E w \in Workers : sent_round[w] = 1

IsAsync == mode = "async"

\* C2: in every state of the asynchronous coordinator in which an Exit has been
\* sent, exactly global_activate_epoch * client_num_per_round ParameterUpdate
\* packages have been sent and exactly as many updates received, the listening
\* thread having returned; rank 0 is sent no Exit, a worker at most one, and
\* exactly one once shutdown_clients has finished.
C2_AsyncExitAfterAllUpdates ==
    IsAsync =>
       /\ exit_sent[0] = 0
       /\ \A w \in Workers : exit_sent[w] = (IF w <= client_idx THEN 1 ELSE 0)
       /\ ExitSentToSome =>
             /\ pu_sent = global_activate_epoch * client_num_per_round
             /\ UpdatesReceived = global_activate_epoch * client_num_per_round
             /\ current_update_time = global_activate_epoch * client_num_per_round
             /\ lis_pc = "done"
       /\ main_pc = "done" => \A w \in Workers : exit_sent[w] = 1

C2_Witness ==
    /\ IsAsync
    /\ main_pc = "done"
    /\ client_num_in_total = 2
    /\ client_num_per_round = 2
    /\ pu_sent = 6
    /\ \A w \in Workers : exit_sent[w] = 1

\* C3 (as claimed): the asynchronous activation thread sends a package of epoch
\* e+1 only after the listening thread has received an update that answers a
\* package sent in epoch e.
C3_NextEpochAfterUpdateOfEpoch ==
    [][ (IsAsync /\ pu_sent' # pu_sent /\ act_round > 0) =>
           recv_tags[act_round - 1] > 0 ]_vars

\* C3 (amended): the asynchronous activation thread leaves the wait of epoch e
\* only with has_new_update set, and sends a package of epoch e+1 only after the
\* listening thread has wholly handled at least e+1 updates, none of which
\* answers a package of a later epoch; the update that opens the gate may answer
\* a package of an epoch before e.
C3_NextEpochAfterSomeUpdate ==
    [][ IsAsync =>
          /\ (act_pc = "wait" /\ act_pc' # "wait") =>
                /\ has_new_update
                /\ act_round' = act_round + 1
                /\ current_update_time >= act_round + 1
          /\ (pu_sent' # pu_sent) =>
                /\ current_update_time >= act_round
                /\ UpdatesReceived >= act_round
                /\ \A e \in Tags : e > act_round => recv_tags[e] = 0
      ]_vars

\* an epoch-2 package on its way although no answer to an epoch-1 package has arrived
C3_Witness ==
    /\ IsAsync
    /\ client_num_per_round >= 2
    /\ act_round = 2
    /\ act_pc = "send"
    /\ act_todo # clients_this_round
    /\ recv_tags[1] = 0

AsyncShutdownComplete ==
    /\ main_pc = "done"
    /\ lis_pc = "done"
    /\ current_update_time = global_activate_epoch * client_num_per_round
    /\ \A w \in Workers : exit_sent[w] = 1

\* C4: when no worker is silent and the threads are scheduled fairly, the
\* asynchronous listening thread completes all its iterations and the
\* coordinator eventually has sent Exit to every worker.
C4_AsyncEventuallyShutsDown ==
    (IsAsync /\ silent = {}) => <>AsyncShutdownComplete

\* An update of the current round is in the listening thread's hands or folded.
SyncReceivedInRound(w) ==
    recv_round[w] + (IF lis_pc = "on_receive" /\ lis_sender = w THEN 1 ELSE 0)

SyncFirstUpdateReceived == \E w \in Workers : SyncReceivedInRound(w) > 0

SyncAllSendsDone == act_todo = {} /\ act_pc \in {"send", "done"}

\* C6 (as claimed): within a round of the synchronous coordinator every
\* activation send has completed before the listening thread receives its first
\* update.
C6_FullActivationBeforeListen ==
    (IsSync /\ SyncFirstUpdateReceived) => SyncAllSendsDone

\* C6 (amended): within a round the listening thread receives an update from a
\* worker only after the activation send to that worker has completed, and the
\* listening thread of the round returns only after every activation send of the
\* round has completed.
C6_ActivationBeforeOwnUpdate ==
    IsSync =>
       /\ \A w \in Workers : SyncReceivedInRound(w) <= sent_round[w]
       /\ n_lis_done > act_round => SyncAllSendsDone

C6_Witness ==
    /\ IsSync
    /\ SyncFirstUpdateReceived
    /\ act_todo # {}

IsStrictlyIncreasing(seq) ==
    \A i \in 1 .. Len(seq) : \A j \in 1 .. Len(seq) : i < j => seq[i].tag < seq[j].tag

\* C7: in synchronous mode, over FIFO channels, the packages a worker takes off
\* its channel and those still queued for it are in strictly increasing round
\* order (Exit counting as round global_round), and a worker that has observed a
\* package of a round later than N, having been selected in round N, has
\* observed its round-N ParameterUpdate before it.
C7_SyncWorkerSeesRoundsInOrder ==
    IsSync =>
       \A w \in Workers :
          /\ IsStrictlyIncreasing(observed[w] \o [i \in 1 .. Len(inbox[w]) |->
                                                      Observation(inbox[w][i])])
          /\ \A i \in 1 .. Len(observed[w]) : \A N \in selected_in[w] :
                observed[w][i].tag > N =>
                   \E j \in 1 .. (i - 1) :
                      /\ observed[w][j].code = ParameterUpdate
                      /\ observed[w][j].tag = N

C7_Witness ==
    /\ IsSync
    /\ \E w \in Workers :
          /\ Len(observed[w]) = 3
          /\ observed[w][1].code = ParameterUpdate /\ observed[w][1].tag = 0
          /\ observed[w][2].code = ParameterUpdate /\ observed[w][2].tag = 1
          /\ observed[w][3].code = Exit

SyncRoundOver == main_pc \in {"shutdown", "done"} \/ (main_pc = "for" /\ round_idx > 0)

\* C8: in each synchronous round a worker is sent at most one ParameterUpdate
\* and only if it is in the activation set, exactly one once the activation
\* thread has returned; the round counter advances, and Exit is sent, only after
\* exactly one update from every activated worker, and none from any other, has
\* been handed to on_receive; so global_round * client_num_per_round updates are
\* received before the first Exit (two with 2 workers, both activated, 1 round).
C8_SyncOneUpdatePerActivatedWorker ==
    IsSync =>
       /\ \A w \in Workers :
             /\ sent_round[w] <= 1
             /\ sent_round[w] = 1 => w \in clients_this_round
             /\ n_act_done > act_round =>
                   sent_round[w] = (IF w \in clients_this_round THEN 1 ELSE 0)
       /\ SyncRoundOver =>
             \A w \in Workers :
                /\ recv_round[w] = (IF w \in clients_this_round THEN 1 ELSE 0)
                /\ sent_round[w] = recv_round[w]
       /\ UpdatesReceived <= round_idx * client_num_per_round + client_num_per_round
       /\ SyncRoundOver => UpdatesReceived = round_idx * client_num_per_round
       /\ ExitSentToSome => UpdatesReceived = global_round * client_num_per_round

C8_Witness ==
    /\ IsSync
    /\ client_num_in_total = 2
    /\ client_num_per_round = 2
    /\ global_round = 1
    /\ UpdatesReceived = 2
    /\ exit_sent[1] = 1
    /\ exit_sent[2] = 1

SyncTerminated ==
    /\ main_pc = "done"
    /\ act_pc = "done"
    /\ lis_pc = "done"
    /\ n_act_done = global_round
    /\ n_lis_done = global_round
    /\ \A w \in Workers : exit_sent[w] = 1

\* C9: when no worker is silent, the synchronous coordinator, for every round
\* r < global_round, is eventually sending the activations of round r, is
\* eventually listening in round r and eventually completes round r, and it
\* eventually has sent every Exit and returned from run() with both threads
\* returned.
C9_SyncTerminates ==
    /\ (silent = {}) => <>SyncTerminated
    /\ \A r \in 0 .. (MaxRound - 1) :
          (silent = {} /\ r < global_round) =>
             /\ <>(round_idx = r /\ act_pc = "send")
             /\ <>(round_idx = r /\ lis_pc = "recv")
             /\ <>(round_idx = r + 1 /\ main_pc = "for")

C9_Witness ==
    /\ IsSync
    /\ silent = {}
    /\ global_round = 2
    /\ SyncTerminated

\* C10: once a silent worker has been selected in round N of the synchronous
\* coordinator, the listening thread of round N never returns, the round counter
\* stays at N, run() stays in that round and no Exit is sent to any rank.
C10_SyncSilentWorkerStalls ==
    IsSync =>
       \A w \in silent : \A N \in selected_in[w] :
          /\ round_idx = N
          /\ n_lis_done = N
          /\ n_lis_done < global_round
          /\ main_pc = "join" => lis_pc # "done"
          /\ main_pc \in {"start_listen", "join"}
          /\ ~ExitSentToSome

\* the listening thread blocked in recv with nothing left to arrive
C10_Witness ==
    /\ IsSync
    /\ client_num_per_round = 2
    /\ \E w \in silent : w \in clients_this_round /\ wpc[w] = "train"
    /\ lis_pc = "recv"
    /\ cache_cnt = 1
    /\ act_pc = "done"
    /\ \A w \in Workers : upd[w] = << >> /\ inbox[w] = << >>

\* C11: once a silent worker has been activated by the asynchronous
\* coordinator, fewer than global_activate_epoch * client_num_per_round updates
\* are ever received, the listening thread never returns, run() never gets past
\* listen.join() and no Exit is sent to any rank.
C11_AsyncSilentWorkerStalls ==
    IsAsync =>
       \A w \in silent :
          selected_in[w] # {} =>
             /\ UpdatesReceived < global_activate_epoch * client_num_per_round
             /\ current_update_time < global_activate_epoch * client_num_per_round
             /\ lis_pc # "done"
             /\ n_lis_done = 0
             /\ main_pc \in {"start_listen", "join"}
             /\ ~ExitSentToSome

\* the listening thread blocked in recv with nothing left to arrive, the
\* responsive worker having answered
C11_Witness ==
    /\ IsAsync
    /\ client_num_per_round = 2
    /\ \E w \in silent : selected_in[w] # {} /\ wpc[w] = "train"
    /\ UpdatesReceived >= 1
    /\ lis_pc = "recv"
    /\ main_pc = "join"
    /\ \A w \in Workers : upd[w] = << >> /\ inbox[w] = << >>

\* the listening thread is inside handler.on_receive
InOnReceive == lis_pc = "applying"

\* the listening thread has finished all the iterations of its loop
AsyncListenReturned == lis_pc = "done"

C12_StampsInOrder ==
    IsAsync =>
       /\ current_update_time <= total_update_time
       /\ UpdatesReceived <= total_update_time
       /\ InOnReceive =>
             /\ model_update_time = current_update_time
             /\ model_update_time = model
             /\ UpdatesReceived = model_update_time + 1
       /\ AsyncListenReturned =>
             /\ current_update_time = total_update_time
             /\ UpdatesReceived = total_update_time
             /\ model = total_update_time
             /\ model_update_time = total_update_time - 1

C12_FlagSetAfterReturn ==
    (IsAsync /\ ~has_new_update /\ has_new_update') =>
       /\ lis_pc = "set"
       /\ model = model_update_time + 1
       /\ current_update_time' = model

\* C12: the asynchronous listening thread performs exactly total_update_time
\* iterations; while on_receive runs for the k-th received update (k = 0, 1, ...)
\* the handler's model_update_time is k, so the stamps are 0, 1, ...,
\* total_update_time - 1 without gap or repeat; and has_new_update becomes true
\* only in the step after on_receive for that update has returned.
C12_AsyncListenStampsAndFlag ==
    [](C12_StampsInOrder) /\ [][C12_FlagSetAfterReturn]_vars

\* the listening thread has returned after its last iteration, stamped
\* total_update_time - 1, and has left the flag set
C12_Witness ==
    /\ IsAsync
    /\ client_num_per_round = 2
    /\ AsyncListenReturned
    /\ model_update_time = total_update_time - 1
    /\ model = total_update_time
    /\ has_new_update

\* the ParameterUpdate packages waiting in worker w's channel, in sending order
QueuedUpdates(w) == SelectSeq(inbox[w], LAMBDA pkg : pkg.code = ParameterUpdate)

\* pkg holds exactly two tensors, a model snapshot and then the epoch index e
CarriesModelThenEpoch(pkg, e) ==
    /\ Len(pkg.tensors) = 2
    /\ pkg.tensors[1].kind = "model"
    /\ pkg.tensors[2] = EpochTensor(e)

C13_QueuedPackages ==
    IsAsync =>
       \A w \in Workers :
          LET q == QueuedUpdates(w)
          IN /\ \A i \in 1 .. Len(q) :
                   \E e \in 0 .. act_round : CarriesModelThenEpoch(q[i], e)
             /\ \A i, j \in 1 .. Len(q) :
                   i < j => q[i].tensors[2].value <= q[j].tensors[2].value

C13_SendStep ==
    (IsAsync /\ pu_sent' # pu_sent) =>
       /\ pu_sent' = pu_sent + 1
       /\ act_round = pu_sent \div client_num_per_round
       /\ act_round < global_activate_epoch
       /\ \E c \in Workers :
             /\ inbox'[c] # inbox[c]
             /\ Len(inbox'[c]) = Len(inbox[c]) + 1
             /\ LET pkg == inbox'[c][Len(inbox'[c])]
                IN /\ pkg.code = ParameterUpdate
                   /\ CarriesModelThenEpoch(pkg, act_round)

\* C13: every ParameterUpdate package the asynchronous activation thread sends
\* during epoch e carries exactly two tensors, the model snapshot and then the
\* epoch index e; the i-th package sent carries epoch i div client_num_per_round,
\* so over all packages sent the epoch index never decreases and takes every
\* value of an epoch that is reached.
C13_AsyncPackageCarriesEpoch ==
    [](C13_QueuedPackages) /\ [][C13_SendStep]_vars

\* the last package of the last epoch has been sent and is still queued
C13_Witness ==
    /\ IsAsync
    /\ client_num_per_round = 2
    /\ pu_sent = global_activate_epoch * client_num_per_round
    /\ \E w \in Workers :
          /\ QueuedUpdates(w) # << >>
          /\ CarriesModelThenEpoch(QueuedUpdates(w)[Len(QueuedUpdates(w))],
                                   global_activate_epoch - 1)

C14_ReceiveOnlyWhileTraining ==
    IsSync =>
       /\ lis_pc \in {"recv", "on_receive"} => train_flag
       /\ UpdatesReceived >= n_lis_done
       /\ lis_pc = "done" => UpdatesReceived = n_lis_done * client_num_per_round

C14_ListenStep ==
    IsSync =>
       /\ (~train_flag /\ train_flag') => (lis_pc = "train" /\ lis_pc' = "while")
       /\ (train_flag /\ ~train_flag') => (lis_pc = "on_receive" /\ lis_pc' = "while")
       /\ (lis_pc = "while" /\ lis_pc' = "recv") => train_flag
       /\ (lis_pc = "recv" /\ lis_pc' # "recv") =>
             /\ lis_pc' = "on_receive"
             /\ lis_sender' \in Workers
             /\ upd[lis_sender'] # << >>
             /\ lis_tag' = Head(upd[lis_sender'])
       /\ (lis_pc = "on_receive" /\ lis_pc' # "on_receive") =>
             /\ UpdatesReceived' = UpdatesReceived + 1
             /\ recv_round'[lis_sender] = recv_round[lis_sender] + 1
             /\ recv_tags'[lis_tag] = recv_tags[lis_tag] + 1

\* C14: in each round the synchronous listening thread sets train_flag before
\* its first receive, receives at least once, hands every received update to
\* handler.on_receive, and starts no receive once on_receive has cleared
\* train_flag; the flag is cleared by on_receive only, never by the topology.
C14_SyncListenUntilFlagCleared ==
    [](C14_ReceiveOnlyWhileTraining) /\ [][C14_ListenStep]_vars

\* the listening thread of the second round has returned after two receives,
\* on_receive having cleared the flag
C14_Witness ==
    /\ IsSync
    /\ client_num_per_round = 2
    /\ lis_pc = "done"
    /\ n_lis_done = 2
    /\ ~train_flag
    /\ UpdatesReceived = 4

\* the updates handed to handler.on_receive whose call has returned
UpdatesFolded ==
    IF IsAsync /\ lis_pc \in {"on_receive", "applying"}
    THEN UpdatesReceived - 1
    ELSE UpdatesReceived

C15_ModelIsFoldOfUpdates ==
    /\ IsAsync => model = UpdatesFolded
    /\ IsSync => /\ model * client_num_per_round + cache_cnt = UpdatesFolded
                 /\ cache_cnt < client_num_per_round

C15_OnlyOnReceiveWrites ==
    /\ model' # model =>
          /\ model' = model + 1
          /\ IsSync => lis_pc = "on_receive" /\ lis_pc' = "while"
          /\ IsAsync => lis_pc = "applying" /\ lis_pc' = "set"
    /\ (\/ act_pc' # act_pc
        \/ act_todo' # act_todo
        \/ pu_sent' # pu_sent
        \/ main_pc' # main_pc
        \/ client_idx' # client_idx
        \/ exit_sent' # exit_sent) => model' = model

\* C15: in both coordinator variants the model changes only in the step in which
\* handler.on_receive, called by the listening thread, folds an update; no step
\* of activate_clients, shutdown_clients or run changes it; and after m calls of
\* on_receive have returned the model is the result of m updates folded one
\* after the other (m in the asynchronous variant, m div client_num_per_round
\* aggregations with m mod client_num_per_round cached in the synchronous one).
C15_SingleWriter ==
    [](C15_ModelIsFoldOfUpdates) /\ [][C15_OnlyOnReceiveWrites]_vars

\* the asynchronous coordinator has folded all its updates and sent every Exit
C15_Witness ==
    /\ IsAsync
    /\ client_num_per_round = 2
    /\ model = total_update_time
    /\ UpdatesFolded = total_update_time
    /\ \A w \in Workers : exit_sent[w] = 1

\* C16: in the asynchronous coordinator with client_num_per_round >= 2, every
\* model snapshot sent to a worker was serialized while the handler was not in
\* the middle of applying an update, so each one is the model after a whole
\* number of applied updates.
C16_AsyncSnapshotsWhole ==
    (IsAsync /\ client_num_per_round >= 2) =>
       \A w \in Workers :
          \A i \in 1 .. Len(inbox[w]) : inbox[w][i].tensors[1].whole

\* the Exit packages waiting in worker w's channel
QueuedExits(w) == SelectSeq(inbox[w], LAMBDA pkg : pkg.code = Exit)

\* the model after every update the listening thread waits for has been applied
FinalModelTensor == ModelTensor(total_update_time, TRUE)

\* C17: every Exit package of the asynchronous coordinator carries the model
\* after all global_activate_epoch * client_num_per_round updates have been
\* applied, hence the same value for every worker, and from the start of
\* shutdown_clients on the model stays at that value.
C17_AsyncExitCarriesFinalModel ==
    IsAsync =>
       /\ \A w \in Workers :
             \A i \in 1 .. Len(QueuedExits(w)) :
                QueuedExits(w)[i].tensors = << FinalModelTensor >>
       /\ (ExitSentToSome \/ main_pc \in {"shutdown", "done"}) =>
             /\ model = total_update_time
             /\ lis_pc = "done"

\* both workers have been sent Exit and the second has not taken it yet
C17_Witness ==
    /\ IsAsync
    /\ client_num_in_total = 2
    /\ client_num_per_round = 2
    /\ \A w \in Workers : exit_sent[w] = 1
    /\ QueuedExits(2) = << Package(Exit, << FinalModelTensor >>, global_activate_epoch) >>
    /\ wpc[1] = "exited"

\* the activation thread spins in its busy-wait with the flag cleared
ActivationSpinning == act_pc = "wait" /\ ~has_new_update

\* C18: once the asynchronous coordinator's shutdown_clients has sent Exit to
\* every worker, the activation thread is not left spinning in the
\* has_new_update busy-wait.
C18_AsyncNoDutyLeftAfterShutdown ==
    (IsAsync /\ \A w \in Workers : exit_sent[w] = 1) => ~ActivationSpinning

\* the epochs whose sends the activation thread has started
EpochsStarted == IF act_pc \in {"send", "wait"} THEN act_round + 1 ELSE act_round

\* C19: every passage of the asynchronous epoch gate uses up an update of its
\* own: the activation thread is in epoch e only when the listening thread has
\* completed at least e iterations, so the number of epochs started is at most
\* the number of updates received plus one.
C19_AsyncGateUsesDistinctUpdates ==
    IsAsync =>
       /\ act_round <= current_update_time
       /\ EpochsStarted <= current_update_time + 1
       /\ EpochsStarted <= UpdatesReceived + 1

\* the sends of the last epoch start when exactly two iterations are complete
C19_Witness ==
    /\ IsAsync
    /\ client_num_per_round = 2
    /\ act_pc = "send"
    /\ act_round = global_activate_epoch - 1
    /\ act_todo = clients_this_round
    /\ current_update_time = act_round
    /\ UpdatesReceived = act_round

\* the ParameterUpdate packages a whole run sends
TotalSends ==
    client_num_per_round * (IF IsSync THEN global_round ELSE global_activate_epoch)

\* C20: in both coordinator variants, once the first Exit has been sent every
\* ParameterUpdate of the run has already been sent and none is sent afterwards,
\* so an Exit is the last package in every worker's channel; in the
\* asynchronous variant this holds while the activation thread is still alive.
C20_ExitIsLastPackage ==
    /\ pu_sent <= TotalSends
    /\ ExitSentToSome => (pu_sent = TotalSends /\ act_todo = {})
    /\ \A w \in Workers :
          \A i \in 1 .. Len(inbox[w]) :
             inbox[w][i].code = Exit => i = Len(inbox[w])

\* the asynchronous coordinator has sent Exit to every worker while its
\* activation thread has not yet left the busy-wait of the last epoch
C20_Witness ==
    /\ IsAsync
    /\ client_num_per_round = 2
    /\ \A w \in Workers : exit_sent[w] = 1
    /\ act_pc = "wait"
    /\ pu_sent = TotalSends

====
